---------------------------- MODULE Spec2Model ----------------------------
(***************************************************************************)
(* A model of tiktoken_offline: the CoreBPE engine of bpe.py (construction, *)
(* byte-pair merge, pretokenizer, special-token-aware encode, decode) and   *)
(* the encoding registry of registry.py.                                    *)
(*                                                                          *)
(* A Python str is a sequence of code points, a bytes object a sequence of  *)
(* integers 0..255.  Python positions are 0-based and slices half-open:     *)
(* s[a:b] is SubSeq(s, a + 1, b).                                           *)
(***************************************************************************)
EXTENDS Integers, Sequences, FiniteSets, TLC

(***************************************************************************)
(* Bounds of the model.                                                     *)
(***************************************************************************)
\* longest text handed to an encode call
MaxLen == 3
\* longest token list handed to decode_bytes
MaxTokens == 2
\* longest text handed to an encode call that runs beside another one
MaxConcLen == 2
\* longest piece handed to byte_pair_split
MaxPieceLen == 4

(***************************************************************************)
(* Values.                                                                  *)
(***************************************************************************)
\* None, where the other values are tuples or sequences; dict.get(key) is
\* None or <<value>>
None == <<>>
Some(v) == <<v>>

\* float('inf'): above every rank of every table
INF == 1000000

\* the characters texts are made of: 'a', ' ', U+00AB and U+00E9
Chars == {97, 32, 171, 233}

Texts == UNION {[1..n -> Chars] : n \in 0..MaxLen}

Min(S) == CHOOSE x \in S : \A y \in S : x <= y

RECURSIVE Concat(_)
Concat(ss) == IF ss = <<>> THEN <<>> ELSE Head(ss) \o Concat(Tail(ss))

\* s[a:b] of Python, for 0 <= a and b <= len(s)
Slice(s, a, b) == SubSeq(s, a + 1, b)

(***************************************************************************)
(* str.encode(): UTF-8.                                                     *)
(***************************************************************************)
utf8_char(c) ==
    IF c < 128 THEN <<c>>
    ELSE IF c < 2048 THEN <<192 + (c \div 64), 128 + (c % 64)>>
    ELSE <<224 + (c \div 4096), 128 + ((c \div 64) % 64), 128 + (c % 64)>>

str_encode(s) == Concat([i \in 1..Len(s) |-> utf8_char(s[i])])

(***************************************************************************)
(* _byte_pair_merge.  parts is a sequence of <<position, rank>>.            *)
(***************************************************************************)
get_rank(piece, ranks, parts, start_idx, skip) ==
    IF start_idx + skip + 2 < Len(parts)
    THEN LET byte_pair == Slice(piece, parts[start_idx + 1][1],
                                parts[start_idx + skip + 3][1])
         IN  IF byte_pair \in DOMAIN ranks THEN ranks[byte_pair] ELSE INF
    ELSE INF

initial_parts(piece, ranks) ==
    LET parts == [i \in 1..(Len(piece) + 1) |-> <<i - 1, INF>>]
    IN  [i \in 1..(Len(piece) + 1) |->
            IF i - 1 < Len(parts) - 2
            THEN <<i - 1, get_rank(piece, ranks, parts, i - 1, 0)>>
            ELSE parts[i]]

\* the scan of parts[:-1] with "rank < min_rank[0]": the first lowest rank
min_rank(parts) ==
    LET finite == {i \in 1..(Len(parts) - 1) : parts[i][2] < INF}
    IN  IF finite = {} THEN <<INF, 0>>
        ELSE LET i == CHOOSE i \in finite : \A j \in finite :
                          \/ parts[i][2] < parts[j][2]
                          \/ (parts[i][2] = parts[j][2] /\ i <= j)
             IN  <<parts[i][2], i - 1>>

\* merge_step leaving the rank of the part before the pair as it was
merge_step_stale(piece, ranks, parts, i) ==
    LET p1 == [parts EXCEPT ![i + 1] =
                  <<parts[i + 1][1], get_rank(piece, ranks, parts, i, 1)>>]
    IN  SubSeq(p1, 1, i + 1) \o SubSeq(p1, i + 3, Len(p1))

merge_step(piece, ranks, parts, i) ==
    LET p1 == [parts EXCEPT ![i + 1] =
                  <<parts[i + 1][1], get_rank(piece, ranks, parts, i, 1)>>]
        p2 == IF i > 0
              THEN [p1 EXCEPT ![i] =
                       <<p1[i][1], get_rank(piece, ranks, p1, i - 1, 1)>>]
              ELSE p1
    IN  SubSeq(p2, 1, i + 1) \o SubSeq(p2, i + 3, Len(p2))

RECURSIVE merge_loop(_, _, _)
merge_loop(piece, ranks, parts) ==
    IF Len(parts) > 1 /\ min_rank(parts)[1] # INF
    THEN merge_loop(piece, ranks, merge_step(piece, ranks, parts, min_rank(parts)[2]))
    ELSE parts

\* byte_pair_merge with the last range left out
byte_pair_merge_short(piece, ranks) ==
    LET parts == merge_loop(piece, ranks, initial_parts(piece, ranks))
    IN  [i \in 1..(Len(parts) - 2) |-> <<parts[i][1], parts[i + 1][1]>>]

\* the ranges <<start, stop>> func is applied to
byte_pair_merge(piece, ranks) ==
    LET parts == merge_loop(piece, ranks, initial_parts(piece, ranks))
    IN  [i \in 1..(Len(parts) - 1) |-> <<parts[i][1], parts[i + 1][1]>>]

(***************************************************************************)
(* A call's outcome: the value returned, or the exception raised.           *)
(***************************************************************************)
Ok(v) == [exc |-> "none", val |-> v]
Raise(e) == [exc |-> e, val |-> <<>>]

\* self.encoder[key] for each key in turn
lookup_all(encoder, keys) ==
    IF \A i \in 1..Len(keys) : keys[i] \in DOMAIN encoder
    THEN Ok([i \in 1..Len(keys) |-> encoder[keys[i]]])
    ELSE Raise("KeyError")

byte_pair_encode(encoder, piece) ==
    IF Len(piece) = 1
    THEN lookup_all(encoder, <<piece>>)
    ELSE LET ranges == byte_pair_merge(piece, encoder)
         IN  lookup_all(encoder,
                 [i \in 1..Len(ranges) |-> Slice(piece, ranges[i][1], ranges[i][2])])

byte_pair_split(encoder, piece) ==
    IF Len(piece) = 1
    THEN <<piece>>
    ELSE LET ranges == byte_pair_merge(piece, encoder)
         IN  [i \in 1..Len(ranges) |-> Slice(piece, ranges[i][1], ranges[i][2])]

(***************************************************************************)
(* The pretokenizer patterns of registry.py, as Python's re reads them.     *)
(* re has no \p{..} escape: pattern_string_1 does not compile, its ASCII    *)
(* form does.  The character classes are those of re on str patterns, over  *)
(* the code points below 256.                                               *)
(***************************************************************************)
pattern_string_1 == "pattern_string_1"
pattern_string_1_ascii == "pattern_string_1_ascii"

re_compiles(pattern) == pattern = pattern_string_1_ascii

CodePoints == 0..255
\* \s
Space == (9..13) \cup (28..32) \cup {133, 160}
\* \d
Digit == 48..57
\* \w
Word ==
    (48..57) \cup (65..90) \cup {95} \cup (97..122) \cup {170, 178, 179, 181}
        \cup (185..186) \cup (188..190) \cup (192..214) \cup (216..246) \cup (248..255)
\* [a-zA-Z_]
AsciiLetter == (65..90) \cup {95} \cup (97..122)
\* [^\s\w\d]
Other == CodePoints \ (Space \cup Word \cup Digit)

\* 's 't 're 've 'm 'll 'd
Contractions ==
    << <<39, 115>>, <<39, 116>>, <<39, 114, 101>>, <<39, 118, 101>>,
       <<39, 109>>, <<39, 108, 108>>, <<39, 100>> >>

NoMatch == -1

\* whether literal lit is at position pos of text
LiteralAt(lit, text, pos) ==
    /\ pos + Len(lit) <= Len(text)
    /\ Slice(text, pos, pos + Len(lit)) = lit

\* C+ from pos: the end of the longest run of C, pos itself when there is none
run_end(text, pos, C) ==
    Min({q \in pos..Len(text) : q = Len(text) \/ text[q + 1] \notin C})

\* \s?C+ at pos: the end of the match, or NoMatch
opt_space_run(text, pos, C) ==
    IF text[pos + 1] \in Space /\ run_end(text, pos + 1, C) > pos + 1
    THEN run_end(text, pos + 1, C)
    ELSE IF run_end(text, pos, C) > pos THEN run_end(text, pos, C) ELSE NoMatch

\* \s+(?!\S) at pos
space_not_before_nonspace(text, pos) ==
    LET q == run_end(text, pos, Space)
    IN  IF q = pos THEN NoMatch
        ELSE IF q = Len(text) THEN q
        ELSE IF q - pos >= 2 THEN q - 1
        ELSE NoMatch

\* the alternatives in order; the first that matches at pos wins
match_at(text, pos) ==
    LET lits == {i \in 1..Len(Contractions) : LiteralAt(Contractions[i], text, pos)}
    IN  IF lits # {} THEN pos + Len(Contractions[Min(lits)])
        ELSE IF opt_space_run(text, pos, AsciiLetter) # NoMatch
             THEN opt_space_run(text, pos, AsciiLetter)
        ELSE IF opt_space_run(text, pos, Digit) # NoMatch
             THEN opt_space_run(text, pos, Digit)
        ELSE IF opt_space_run(text, pos, Other) # NoMatch
             THEN opt_space_run(text, pos, Other)
        ELSE IF space_not_before_nonspace(text, pos) # NoMatch
             THEN space_not_before_nonspace(text, pos)
        ELSE IF run_end(text, pos, Space) > pos
             THEN run_end(text, pos, Space)
        ELSE NoMatch

\* regex.finditer(text) from pos on: the matched substrings, left to right
RECURSIVE finditer_from(_, _)
finditer_from(text, pos) ==
    IF pos >= Len(text) THEN <<>>
    ELSE IF match_at(text, pos) = NoMatch THEN finditer_from(text, pos + 1)
    ELSE <<Slice(text, pos, match_at(text, pos))>>
             \o finditer_from(text, match_at(text, pos))

finditer(regex, text) ==
    IF regex = pattern_string_1_ascii THEN finditer_from(text, 0) ELSE <<>>

(***************************************************************************)
(* The special-token pattern: "|".join(map(re.escape, keys)).  An escaped   *)
(* literal matches itself; the join of no key is the empty pattern, which   *)
(* is one empty alternative.  special_tokens_encoder is the dict in         *)
(* insertion order, a sequence of <<literal, token>>.                       *)
(***************************************************************************)
special_alternatives(special_tokens_encoder) ==
    IF special_tokens_encoder = <<>> THEN << <<>> >>
    ELSE [i \in 1..Len(special_tokens_encoder) |-> special_tokens_encoder[i][1]]

\* special_search taking the rightmost match
special_search_last(alts, text, pos) ==
    LET at(p) == {i \in 1..Len(alts) : LiteralAt(alts[i], text, p)}
        starts == {p \in pos..Len(text) : at(p) # {}}
        last == CHOOSE p \in starts : \A q \in starts : q <= p
    IN  IF starts = {} THEN None
        ELSE <<last, last + Len(alts[Min(at(last))])>>

\* special_regex.search(text, pos): <<start, end>> of the leftmost match, the
\* first alternative that matches there; None without a match
special_search(alts, text, pos) ==
    LET at(p) == {i \in 1..Len(alts) : LiteralAt(alts[i], text, p)}
        starts == {p \in pos..Len(text) : at(p) # {}}
    IN  IF starts = {} THEN None
        ELSE <<Min(starts), Min(starts) + Len(alts[Min(at(Min(starts)))])>>

\* special_tokens_encoder.get(piece)
special_get(special_tokens_encoder, piece) ==
    LET hit == {i \in 1..Len(special_tokens_encoder) :
                   special_tokens_encoder[i][1] = piece}
    IN  IF hit = {} THEN None ELSE Some(special_tokens_encoder[Min(hit)][2])

(***************************************************************************)
(* The loop over the pretokenizer's matches that _encode_ordinary_native    *)
(* and _encode_native share: the tokens of the pieces, and the number of    *)
(* tokens of the last piece (last, kept when there is no piece).            *)
(***************************************************************************)
piece_tokens(encoder, piece) ==
    IF piece \in DOMAIN encoder
    THEN Ok(<<encoder[piece]>>)
    ELSE byte_pair_encode(encoder, piece)

RECURSIVE encode_pieces(_, _, _, _)
encode_pieces(encoder, pieces, ret, last) ==
    IF pieces = <<>> THEN [exc |-> "none", val |-> ret, last |-> last]
    ELSE LET r == piece_tokens(encoder, str_encode(Head(pieces)))
         IN  IF r.exc # "none" THEN [exc |-> r.exc, val |-> ret, last |-> last]
             ELSE encode_pieces(encoder, Tail(pieces), ret \o r.val, Len(r.val))

encode_ordinary_native(encoder, regex, text) ==
    encode_pieces(encoder, finditer(regex, text), <<>>, 0)

(***************************************************************************)
(* The engine and its callers.                                              *)
(***************************************************************************)
MAX_NUM_THREADS == 128

\* the worker threads, and threading.get_ident() of each: the two idents
\* fall on the same slot of the pattern pools
Threads == {1, 2}
get_ident(t) == IF t = 1 THEN 7 ELSE 135

VARIABLES
    self,       \* the CoreBPE instance: its attributes
    init_exc,   \* "unbuilt", then "none" or the exception __init__ raised
    th,         \* each thread's call: operation, arguments, locals, outcome
    ENCODINGS,  \* registry.ENCODINGS: the engine of a name, None without one
    _lock,      \* registry._lock: the thread that holds it, None when free
    ge,         \* each thread's call of the registry: position, locals, outcome
    built       \* the number of engines constructed for each name so far

registry_vars == <<ENCODINGS, _lock, ge, built>>

vars == <<self, init_exc, th, ENCODINGS, _lock, ge, built>>

Range(f) == {f[k] : k \in DOMAIN f}

\* {v: k for k, v in encoder.items()}
invert(encoder) ==
    [v \in Range(encoder) |-> CHOOSE k \in DOMAIN encoder : encoder[k] = v]

\* {v: k.encode() for k, v in special_tokens_encoder.items()}: the last
\* literal of a token wins
invert_special(special_tokens_encoder) ==
    LET n == Len(special_tokens_encoder)
        last(v) == CHOOSE i \in 1..n :
                       /\ special_tokens_encoder[i][2] = v
                       /\ \A j \in 1..n : special_tokens_encoder[j][2] = v => j <= i
    IN  [v \in {special_tokens_encoder[i][2] : i \in 1..n} |->
            str_encode(special_tokens_encoder[last(v)][1])]

\* the order of bytes objects
bytes_le(a, b) ==
    LET n == IF Len(a) < Len(b) THEN Len(a) ELSE Len(b)
        diff == {i \in 1..n : a[i] # b[i]}
    IN  IF diff = {} THEN Len(a) <= Len(b) ELSE a[Min(diff)] < b[Min(diff)]

RECURSIVE sorted(_)
sorted(S) ==
    IF S = {} THEN <<>>
    ELSE LET m == CHOOSE m \in S : \A y \in S : bytes_le(m, y)
         IN  <<m>> \o sorted(S \ {m})

\* [item] * n: a list of n references to one object, and its element i
list_times(item, n) == [len |-> n, item |-> item]
list_get(l, i) == IF i \in 0..(l.len - 1) THEN l.item ELSE None

Unbuilt ==
    [encoder |-> <<>>, special_tokens_encoder |-> <<>>, decoder |-> <<>>,
     special_tokens_decoder |-> <<>>, regex_tls |-> list_times(None, 0),
     special_regex_tls |-> list_times(None, 0), sorted_token_bytes |-> <<>>]

IdleCall ==
    [pc |-> "idle", op |-> "none", text |-> <<>>, allowed_special |-> {},
     tokens |-> <<>>, tokens_of |-> "none", ret |-> <<>>, start |-> 0,
     start_find |-> 0, next_special |-> None, last_piece_token_len |-> 0,
     out |-> <<>>, exc |-> "none", piece |-> <<>>, parts |-> <<>>,
     increased_len |-> 0, completions |-> {}]

\* the names the callers ask for: two of ENCODING_CONSTRUCTORS, and one that
\* is not a name of it
ENCODING_CONSTRUCTORS == <<"gpt2", "cl100k_base">>
EncodingNames == Range(ENCODING_CONSTRUCTORS) \cup {"gpt3"}

\* a thread that is in no call of the registry
IdleGet ==
    [pc |-> "idle", op |-> "none", encoding_name |-> "", enc |-> None,
     ret |-> None, exc |-> "none"]

Init ==
    /\ self = Unbuilt
    /\ init_exc = "unbuilt"
    /\ th = [t \in Threads |-> IdleCall]
    /\ ENCODINGS = [name \in EncodingNames |-> None]
    /\ _lock = None
    /\ ge = [t \in Threads |-> IdleGet]
    /\ built = [name \in EncodingNames |-> 0]

\* the attributes __init__ sets
new_engine(encoder, special_tokens_encoder, pattern) ==
    [encoder |-> encoder,
     special_tokens_encoder |-> special_tokens_encoder,
     decoder |-> invert(encoder),
     special_tokens_decoder |-> invert_special(special_tokens_encoder),
     regex_tls |-> list_times(pattern, MAX_NUM_THREADS),
     special_regex_tls |->
         list_times(special_alternatives(special_tokens_encoder), MAX_NUM_THREADS),
     sorted_token_bytes |-> sorted(DOMAIN encoder)]

\* CoreBPE.__init__
CoreBPE_init(encoder, special_tokens_encoder, pattern) ==
    /\ init_exc = "unbuilt"
    /\ UNCHANGED <<th, registry_vars>>
    /\ IF ~re_compiles(pattern)
       THEN /\ init_exc' = "ValueError: Invalid regex pattern"
            /\ UNCHANGED self
       ELSE IF Cardinality(DOMAIN encoder) # Cardinality(DOMAIN invert(encoder))
       THEN /\ init_exc' = "ValueError: duplicate token indices"
            /\ UNCHANGED self
       ELSE /\ init_exc' = "none"
            /\ self' = new_engine(encoder, special_tokens_encoder, pattern)

hash_current_thread(t) == get_ident(t)

get_tl_regex(eng, t) ==
    list_get(eng.regex_tls, hash_current_thread(t) % MAX_NUM_THREADS)

get_tl_special_regex(eng, t) ==
    list_get(eng.special_regex_tls, hash_current_thread(t) % MAX_NUM_THREADS)

\* dict.get(key)
dict_get(d, key) == IF key \in DOMAIN d THEN Some(d[key]) ELSE None

\* token_bytes looking in the special tokens first
token_bytes_special_first(eng, token) ==
    IF token \in DOMAIN eng.special_tokens_decoder
    THEN Some(eng.special_tokens_decoder[token])
    ELSE dict_get(eng.decoder, token)

\* self.decoder.get(token, self.special_tokens_decoder.get(token))
token_bytes(eng, token) ==
    IF token \in DOMAIN eng.decoder
    THEN Some(eng.decoder[token])
    ELSE dict_get(eng.special_tokens_decoder, token)

\* _decode_native
decode_native(eng, tokens) ==
    Concat([i \in 1..Len(tokens) |->
               IF token_bytes(eng, tokens[i]) # None
               THEN token_bytes(eng, tokens[i])[1]
               ELSE <<>>])

\* decode_single_token_bytes: "a or b" is b when a is None or empty
decode_single_token_bytes(eng, token) ==
    LET a == dict_get(eng.decoder, token)
        bytes_result == IF a # None /\ a[1] # <<>>
                        THEN a
                        ELSE dict_get(eng.special_tokens_decoder, token)
    IN  IF bytes_result # None THEN Ok(bytes_result[1]) ELSE Raise("KeyError")

Ready(t) == init_exc = "none" /\ th[t].pc = "idle"

Finished(r) == IF r.exc = "none" THEN "done" ELSE "raised"

\* encode_ordinary(text)
CallEncodeOrdinary(t, text) ==
    /\ Ready(t)
    /\ LET r == encode_ordinary_native(self.encoder, get_tl_regex(self, t), text)
       IN  th' = [th EXCEPT ![t] =
                     [IdleCall EXCEPT !.pc = Finished(r), !.op = "encode_ordinary",
                                      !.text = text, !.ret = r.val, !.exc = r.exc]]
    /\ UNCHANGED <<self, init_exc, registry_vars>>

\* decode_bytes(tokens)
CallDecodeBytes(t, tokens) ==
    /\ Ready(t)
    /\ th' = [th EXCEPT ![t] =
                 [IdleCall EXCEPT !.pc = "done", !.op = "decode_bytes",
                                  !.tokens = tokens, !.tokens_of = "caller",
                                  !.out = decode_native(self, tokens)]]
    /\ UNCHANGED <<self, init_exc, registry_vars>>

\* decode_bytes(ret), ret the tokens the thread's encode call returned
DecodeEncoded(t) ==
    /\ init_exc = "none"
    /\ th[t].pc = "done"
    /\ th[t].op \in {"encode_ordinary", "encode"}
    /\ th' = [th EXCEPT ![t].op = "decode_bytes",
                        ![t].tokens = th[t].ret,
                        ![t].tokens_of = th[t].op,
                        ![t].out = decode_native(self, th[t].ret)]
    /\ UNCHANGED <<self, init_exc, registry_vars>>

\* decode_single_token_bytes(token)
CallDecodeSingle(t, token) ==
    /\ Ready(t)
    /\ LET r == decode_single_token_bytes(self, token)
       IN  th' = [th EXCEPT ![t] =
                     [IdleCall EXCEPT !.pc = Finished(r),
                                      !.op = "decode_single_token_bytes",
                                      !.tokens = <<token>>, !.tokens_of = "caller",
                                      !.out = r.val, !.exc = r.exc]]
    /\ UNCHANGED <<self, init_exc, registry_vars>>

\* the frame of _encode_native(text, allowed_special) at its outer loop
encode_frame(text, allowed_special) ==
    [IdleCall EXCEPT !.pc = "search", !.op = "encode", !.text = text,
                     !.allowed_special = allowed_special]

\* encode(text, allowed_special)
CallEncode(t, text, allowed_special) ==
    /\ Ready(t)
    /\ th' = [th EXCEPT ![t] = encode_frame(text, allowed_special)]
    /\ UNCHANGED <<self, init_exc, registry_vars>>

\* One iteration of the inner loop of _encode_native, on the frame c of the
\* call.  An iteration that skips a match without moving start_find is
\* followed by the same iteration for ever: the call is "hung".
search_step(eng, t, c) ==
    LET m == special_search(get_tl_special_regex(eng, t), c.text, c.start_find)
    IN  IF m = None
        THEN [c EXCEPT !.next_special = None, !.pc = "segment"]
        ELSE IF Slice(c.text, m[1], m[2]) \in c.allowed_special
        THEN [c EXCEPT !.next_special = m, !.pc = "segment"]
        ELSE [c EXCEPT !.start_find = m[2],
                       !.pc = IF m[2] = c.start_find THEN "hung" ELSE "search"]

\* segment_step keeping last_piece_token_len after a reserved token
segment_step_no_reset(eng, t, c) ==
    LET end == IF c.next_special # None THEN c.next_special[1] ELSE Len(c.text)
        r == encode_pieces(eng.encoder,
                           finditer(get_tl_regex(eng, t), Slice(c.text, c.start, end)),
                           c.ret, c.last_piece_token_len)
        token == special_get(eng.special_tokens_encoder,
                             Slice(c.text, c.next_special[1], c.next_special[2]))
    IN  IF r.exc # "none"
        THEN [c EXCEPT !.pc = "raised", !.exc = r.exc, !.ret = r.val,
                       !.last_piece_token_len = r.last]
        ELSE IF c.next_special # None
        THEN [c EXCEPT !.ret = r.val \o token,
                       !.start = c.next_special[2],
                       !.start_find = c.next_special[2],
                       !.next_special = None,
                       !.last_piece_token_len = r.last,
                       !.pc = IF c.next_special[2] = c.start THEN "hung" ELSE "search"]
        ELSE [c EXCEPT !.ret = r.val, !.last_piece_token_len = r.last,
                       !.pc = IF c.op = "encode_with_unstable" THEN "unstable"
                              ELSE "done"]

\* The rest of an iteration of the outer loop: the pretokenizer over
\* text[start:end], then the reserved token.  An iteration that leaves start
\* where it was is followed by the same iteration for ever.
segment_step(eng, t, c) ==
    LET end == IF c.next_special # None THEN c.next_special[1] ELSE Len(c.text)
        r == encode_pieces(eng.encoder,
                           finditer(get_tl_regex(eng, t), Slice(c.text, c.start, end)),
                           c.ret, c.last_piece_token_len)
        token == special_get(eng.special_tokens_encoder,
                             Slice(c.text, c.next_special[1], c.next_special[2]))
    IN  IF r.exc # "none"
        THEN [c EXCEPT !.pc = "raised", !.exc = r.exc, !.ret = r.val,
                       !.last_piece_token_len = r.last]
        ELSE IF c.next_special # None
        THEN [c EXCEPT !.ret = r.val \o token,
                       !.start = c.next_special[2],
                       !.start_find = c.next_special[2],
                       !.next_special = None,
                       !.last_piece_token_len = 0,
                       !.pc = IF c.next_special[2] = c.start THEN "hung" ELSE "search"]
        ELSE [c EXCEPT !.ret = r.val, !.last_piece_token_len = r.last,
                       !.pc = IF c.op = "encode_with_unstable" THEN "unstable"
                              ELSE "done"]

SearchStep(t) ==
    /\ th[t].pc = "search"
    /\ th' = [th EXCEPT ![t] = search_step(self, t, th[t])]
    /\ UNCHANGED <<self, init_exc, registry_vars>>

\* SegmentStep keeping, in the rank table, the first token of the segment as
\* the rank of the segment's bytes
SegmentStepCaching(t) ==
    /\ th[t].pc = "segment"
    /\ th' = [th EXCEPT ![t] = segment_step(self, t, th[t])]
    /\ LET c == th[t]
           end == IF c.next_special # None THEN c.next_special[1] ELSE Len(c.text)
           key == str_encode(Slice(c.text, c.start, end))
           r == segment_step(self, t, c).ret
       IN  self' = IF key \in DOMAIN self.encoder \/ Len(r) = Len(c.ret)
                   THEN self
                   ELSE [self EXCEPT !.encoder = (key :> r[Len(c.ret) + 1]) @@ @]
    /\ UNCHANGED <<init_exc, registry_vars>>

SegmentStep(t) ==
    /\ th[t].pc = "segment"
    /\ th' = [th EXCEPT ![t] = segment_step(self, t, th[t])]
    /\ UNCHANGED <<self, init_exc, registry_vars>>

\* encode_with_unstable(text, allowed_special): _encode_native runs first
CallEncodeWithUnstable(t, text, allowed_special) ==
    /\ Ready(t)
    /\ th' = [th EXCEPT ![t] = [encode_frame(text, allowed_special)
                                   EXCEPT !.op = "encode_with_unstable"]]
    /\ UNCHANGED <<self, init_exc, registry_vars>>

\* "b in [b' ', b'\n', b'\t']" for b an element of a bytes object: b is an
\* int, and an int equals no bytes object
int_in_bytes_list(b, list) == \E x \in list : FALSE

\* token_is_all_space
token_is_all_space(eng, token) ==
    LET got == dict_get(eng.decoder, token)
    IN  IF got # None
        THEN \A i \in 1..Len(got[1]) :
                 int_in_bytes_list(got[1][i], {<<32>>, <<10>>, <<9>>})
        ELSE FALSE

\* the while loop of _increase_last_piece_token_len; tokens[-n - 1] is the
\* element Len(tokens) - n of the sequence
RECURSIVE increase_loop(_, _, _)
increase_loop(eng, tokens, last_piece_token_len) ==
    IF /\ last_piece_token_len < Len(tokens)
       /\ token_is_all_space(eng, tokens[Len(tokens) - last_piece_token_len])
    THEN increase_loop(eng, tokens, last_piece_token_len + 1)
    ELSE last_piece_token_len

\* _increase_last_piece_token_len: the length it returns
increase_last_piece_token_len(eng, tokens, last_piece_token_len) ==
    IF /\ last_piece_token_len > 0
       /\ token_is_all_space(eng, tokens[Len(tokens) - last_piece_token_len + 1])
    THEN increase_loop(eng, tokens, last_piece_token_len)
    ELSE last_piece_token_len

\* _encode_unstable_native after _encode_native has returned c.ret and
\* c.last_piece_token_len; encode_with_unstable returns ret and completions
encode_unstable_native(eng, c) ==
    IF c.last_piece_token_len = 0
    THEN [c EXCEPT !.pc = "done", !.tokens = c.ret, !.tokens_of = "_encode_native"]
    ELSE LET n == increase_last_piece_token_len(eng, c.ret, c.last_piece_token_len)
         IN  [c EXCEPT !.pc = "done",
                       !.tokens = c.ret, !.tokens_of = "_encode_native",
                       !.increased_len = n,
                       !.out = decode_native(eng, SubSeq(c.ret, Len(c.ret) - n + 1,
                                                         Len(c.ret))),
                       !.ret = SubSeq(c.ret, 1, Len(c.ret) - n),
                       !.completions = {}]

UnstableStep(t) ==
    /\ th[t].pc = "unstable"
    /\ th' = [th EXCEPT ![t] = encode_unstable_native(self, th[t])]
    /\ UNCHANGED <<self, init_exc, registry_vars>>

\* byte_pair_split(piece): a piece of one byte is returned as it is, any
\* other piece goes to _byte_pair_merge, whose parts get their first ranks
CallBytePairSplit(t, piece) ==
    /\ Ready(t)
    /\ th' = [th EXCEPT ![t] =
                 IF Len(piece) = 1
                 THEN [IdleCall EXCEPT !.pc = "done", !.op = "byte_pair_split",
                                       !.piece = piece, !.out = <<piece>>]
                 ELSE [IdleCall EXCEPT !.pc = "merge", !.op = "byte_pair_split",
                                       !.piece = piece,
                                       !.parts = initial_parts(piece, self.encoder)]]
    /\ UNCHANGED <<self, init_exc, registry_vars>>

\* One iteration of the while loop of _byte_pair_merge on the frame c: the
\* pair of the lowest rank becomes one part; without a rank, or with one part
\* boundary left, the loop ends and func is applied to the ranges.
merge_iteration(eng, c) ==
    LET m == min_rank(c.parts)
    IN  IF Len(c.parts) > 1 /\ m[1] # INF
        THEN [c EXCEPT !.parts = merge_step(c.piece, eng.encoder, c.parts, m[2])]
        ELSE [c EXCEPT !.pc = "done",
                       !.out = [k \in 1..(Len(c.parts) - 1) |->
                                   Slice(c.piece, c.parts[k][1], c.parts[k + 1][1])]]

MergeIteration(t) ==
    /\ th[t].pc = "merge"
    /\ th' = [th EXCEPT ![t] = merge_iteration(self, th[t])]
    /\ UNCHANGED <<self, init_exc, registry_vars>>

\* the caller takes the outcome of its call: the call's frame is gone
Return(t) ==
    /\ th[t].pc \in {"done", "raised"}
    /\ th' = [th EXCEPT ![t] = IdleCall]
    /\ UNCHANGED <<self, init_exc, registry_vars>>

(***************************************************************************)
(* The registry: get_encoding and list_encoding_names.  An Encoding is the  *)
(* pair of its name and the number of the construction that made it.        *)
(***************************************************************************)
\* get_encoding(encoding_name) is called
CallGetEncoding(t, encoding_name) ==
    /\ ge[t].pc = "idle"
    /\ ge' = [ge EXCEPT ![t] = [IdleGet EXCEPT !.pc = "check", !.op = "get_encoding",
                                               !.encoding_name = encoding_name]]
    /\ UNCHANGED <<self, init_exc, th, ENCODINGS, _lock, built>>

\* if encoding_name in ENCODINGS: return ENCODINGS[encoding_name]
CheckCache(t) ==
    /\ ge[t].pc = "check"
    /\ ge' = [ge EXCEPT ![t] =
                 IF ENCODINGS[ge[t].encoding_name] # None
                 THEN [ge[t] EXCEPT !.pc = "returned",
                                    !.ret = ENCODINGS[ge[t].encoding_name]]
                 ELSE [ge[t] EXCEPT !.pc = "acquire"]]
    /\ UNCHANGED <<self, init_exc, th, ENCODINGS, _lock, built>>

\* with _lock: the thread waits while another thread holds the lock
AcquireLock(t) ==
    /\ ge[t].pc = "acquire"
    /\ _lock \in {None, Some(t)}
    /\ _lock' = Some(t)
    /\ ge' = [ge EXCEPT ![t].pc = "locked"]
    /\ UNCHANGED <<self, init_exc, th, ENCODINGS, built>>

\* if encoding_name not in ENCODING_CONSTRUCTORS: raise ValueError
LookupConstructor(t) ==
    /\ ge[t].pc = "locked"
    /\ IF ge[t].encoding_name \notin Range(ENCODING_CONSTRUCTORS)
       THEN /\ ge' = [ge EXCEPT ![t].pc = "raised",
                                ![t].exc = "ValueError: Unknown encoding"]
            /\ _lock' = None
       ELSE /\ ge' = [ge EXCEPT ![t].pc = "construct"]
            /\ UNCHANGED _lock
    /\ UNCHANGED <<self, init_exc, th, ENCODINGS, built>>

\* enc = Encoding(**constructor()): a new Encoding
Construct(t) ==
    /\ ge[t].pc = "construct"
    /\ built' = [built EXCEPT ![ge[t].encoding_name] = @ + 1]
    /\ ge' = [ge EXCEPT ![t].pc = "insert",
                        ![t].enc = <<ge[t].encoding_name,
                                     built[ge[t].encoding_name] + 1>>]
    /\ UNCHANGED <<self, init_exc, th, ENCODINGS, _lock>>

\* enc = Encoding(**constructor()): the constructor raises, and the with
\* statement releases the lock
ConstructRaises(t) ==
    /\ ge[t].pc = "construct"
    /\ ge' = [ge EXCEPT ![t].pc = "raised", ![t].exc = "constructor"]
    /\ _lock' = None
    /\ UNCHANGED <<self, init_exc, th, ENCODINGS, built>>

\* ENCODINGS[encoding_name] = enc; return enc
InsertAndReturn(t) ==
    /\ ge[t].pc = "insert"
    /\ ENCODINGS' = [ENCODINGS EXCEPT ![ge[t].encoding_name] = ge[t].enc]
    /\ _lock' = None
    /\ ge' = [ge EXCEPT ![t].pc = "returned", ![t].ret = ge[t].enc]
    /\ UNCHANGED <<self, init_exc, th, built>>

\* list_encoding_names(): the names, read with the lock held
ListEncodingNames(t) ==
    /\ ge[t].pc = "idle"
    /\ _lock \in {None, Some(t)}
    /\ ge' = [ge EXCEPT ![t] = [IdleGet EXCEPT !.pc = "returned",
                                               !.op = "list_encoding_names",
                                               !.ret = ENCODING_CONSTRUCTORS]]
    /\ UNCHANGED <<self, init_exc, th, ENCODINGS, _lock, built>>

\* the caller takes the outcome of its call
RegistryReturn(t) ==
    /\ ge[t].pc \in {"returned", "raised"}
    /\ ge' = [ge EXCEPT ![t] = IdleGet]
    /\ UNCHANGED <<self, init_exc, th, ENCODINGS, _lock, built>>

(***************************************************************************)
(* The inputs: rank tables, special-token tables, patterns, texts, tokens.  *)
(***************************************************************************)
\* U+00AB alone and doubled, "a" before U+00AB, "a", and the empty literal
LitQ == <<171>>
LitQQ == <<171, 171>>
LitAQ == <<97, 171>>
LitA == <<97>>
LitEmpty == <<>>

\* every byte of the texts, and three merges
ENC_FULL ==
    (<<97>> :> 0) @@ (<<32>> :> 1) @@ (<<194>> :> 2) @@ (<<171>> :> 3)
        @@ (<<195>> :> 4) @@ (<<169>> :> 5)
        @@ (<<97, 97>> :> 6) @@ (<<32, 97>> :> 7) @@ (<<194, 171>> :> 8)

\* ENC_FULL and the empty byte sequence
ENC_EMPTY == ENC_FULL @@ (<<>> :> 9)

\* no entry for byte 171
ENC_NOBYTE ==
    (<<97>> :> 0) @@ (<<32>> :> 1) @@ (<<194>> :> 2)
        @@ (<<195>> :> 4) @@ (<<169>> :> 5)
        @@ (<<97, 97>> :> 6) @@ (<<32, 97>> :> 7)

\* two byte sequences of one rank
ENC_DUP == (<<97>> :> 0) @@ (<<32>> :> 0) @@ (<<194>> :> 2) @@ (<<171>> :> 3)

EngineInputs ==
    { [encoder |-> ENC_FULL, special |-> << <<LitQ, 20>> >>,
       pattern |-> pattern_string_1_ascii],
      [encoder |-> ENC_FULL, special |-> << <<LitQ, 20>>, <<LitQQ, 21>> >>,
       pattern |-> pattern_string_1_ascii],
      [encoder |-> ENC_FULL, special |-> << <<LitQQ, 21>>, <<LitQ, 20>> >>,
       pattern |-> pattern_string_1_ascii],
      [encoder |-> ENC_FULL, special |-> << <<LitAQ, 23>>, <<LitQ, 20>> >>,
       pattern |-> pattern_string_1_ascii],
      [encoder |-> ENC_FULL, special |-> << <<LitA, 24>>, <<LitQ, 20>> >>,
       pattern |-> pattern_string_1_ascii],
      [encoder |-> ENC_FULL, special |-> <<>>,
       pattern |-> pattern_string_1_ascii],
      [encoder |-> ENC_FULL, special |-> << <<LitEmpty, 22>> >>,
       pattern |-> pattern_string_1_ascii],
      [encoder |-> ENC_EMPTY, special |-> << <<LitQ, 0>>, <<LitQQ, 9>> >>,
       pattern |-> pattern_string_1_ascii],
      [encoder |-> ENC_EMPTY, special |-> << <<LitQ, 20>> >>,
       pattern |-> pattern_string_1_ascii],
      [encoder |-> ENC_NOBYTE, special |-> << <<LitQ, 20>> >>,
       pattern |-> pattern_string_1_ascii],
      [encoder |-> ENC_DUP, special |-> << <<LitQ, 20>> >>,
       pattern |-> pattern_string_1_ascii],
      [encoder |-> ENC_FULL, special |-> << <<LitQ, 20>> >>,
       pattern |-> pattern_string_1] }

\* the literals of the engine's table
Literals == {self.special_tokens_encoder[i][1] :
                i \in 1..Len(self.special_tokens_encoder)}

\* the allowed_special sets of the calls
AllowedSets == SUBSET (Literals \cup {LitQ})

\* an id of neither table
UnknownToken == 999999999

TokenIds ==
    DOMAIN self.decoder \cup DOMAIN self.special_tokens_decoder \cup {UnknownToken}

TokenSeqs == UNION {[1..n -> TokenIds] : n \in 0..MaxTokens}

Call(t) ==
    \/ \E text \in Texts : CallEncodeOrdinary(t, text)
    \/ \E text \in Texts : \E allowed_special \in AllowedSets :
           CallEncode(t, text, allowed_special)
    \/ SearchStep(t)
    \/ SegmentStep(t)
    \/ DecodeEncoded(t)
    \/ \E tokens \in TokenSeqs : CallDecodeBytes(t, tokens)
    \/ \E token \in TokenIds : CallDecodeSingle(t, token)
    \/ Return(t)

Build ==
    \E e \in EngineInputs : CoreBPE_init(e.encoder, e.special, e.pattern)

\* one caller
Next == Build \/ Call(1)

Spec == Init /\ [][Next]_vars

\* the shorter texts, over two characters, of the calls that run side by side
ConcTexts == UNION {[1..n -> {97, 171}] : n \in 0..MaxConcLen}

ConcEngineInputs ==
    { [encoder |-> ENC_FULL, special |-> << <<LitQ, 20>>, <<LitQQ, 21>> >>,
       pattern |-> pattern_string_1_ascii],
      [encoder |-> ENC_FULL, special |-> << <<LitAQ, 23>>, <<LitQ, 20>> >>,
       pattern |-> pattern_string_1_ascii] }

ConcBuild ==
    \E e \in ConcEngineInputs : CoreBPE_init(e.encoder, e.special, e.pattern)

ConcCall(t) ==
    \/ \E text \in ConcTexts : CallEncodeOrdinary(t, text)
    \/ \E text \in ConcTexts : \E allowed_special \in AllowedSets :
           CallEncode(t, text, allowed_special)
    \/ SearchStep(t)
    \/ SegmentStep(t)
    \/ DecodeEncoded(t)
    \/ Return(t)

\* the threads call the operations of one engine side by side
NextConc == ConcBuild \/ \E t \in Threads : ConcCall(t)

SpecConc == Init /\ [][NextConc]_vars

RegistryCall(t) ==
    \/ \E encoding_name \in EncodingNames : CallGetEncoding(t, encoding_name)
    \/ CheckCache(t)
    \/ AcquireLock(t)
    \/ LookupConstructor(t)
    \/ Construct(t)
    \/ ConstructRaises(t)
    \/ InsertAndReturn(t)
    \/ ListEncodingNames(t)
    \/ RegistryReturn(t)

\* the threads call the registry side by side
NextRegistry == \E t \in Threads : RegistryCall(t)

SpecRegistry == Init /\ [][NextRegistry]_vars

UnstableCall(t) ==
    \/ \E text \in Texts : \E allowed_special \in AllowedSets :
           CallEncodeWithUnstable(t, text, allowed_special)
    \/ SearchStep(t)
    \/ SegmentStep(t)
    \/ UnstableStep(t)
    \/ Return(t)

\* one caller of encode_with_unstable
NextUnstable == Build \/ UnstableCall(1)

SpecUnstable == Init /\ [][NextUnstable]_vars

\* the bytes of the pieces the callers split
PieceBytes == {97, 98}
Pieces == UNION {[1..n -> PieceBytes] : n \in 0..MaxPieceLen}

\* the byte sequences that have a rank in some of the rank tables, in two
\* orders: the rank of a byte sequence is its place in the order
MergeKeys ==
    << <<97>>, <<98>>, <<97, 98>>, <<98, 97>>, <<97, 97>>, <<98, 98>>,
       <<97, 97, 98>>, <<97, 98, 98>>, <<97, 98, 97, 98>> >>
MergeKeysReversed == [i \in 1..Len(MergeKeys) |-> MergeKeys[Len(MergeKeys) + 1 - i]]

\* the rank table of the byte sequences of order at the places of chosen
ranks_of(order, chosen) ==
    [b \in {order[i] : i \in chosen} |-> CHOOSE i \in chosen : order[i] = b]

\* rank tables with both single bytes
MergeRanks ==
    UNION {{ranks_of(order, chosen) :
               chosen \in {c \in SUBSET (1..Len(order)) :
                              \A i \in 1..Len(order) : Len(order[i]) = 1 => i \in c}} :
           order \in {MergeKeys, MergeKeysReversed}}

MergeBuild ==
    \E ranks \in MergeRanks : CoreBPE_init(ranks, <<>>, pattern_string_1_ascii)

MergeCall(t) ==
    \/ \E piece \in Pieces : CallBytePairSplit(t, piece)
    \/ MergeIteration(t)
    \/ Return(t)

\* one caller splits pieces with the rank table of an engine
NextMerge == MergeBuild \/ MergeCall(1)

SpecMerge == Init /\ [][NextMerge]_vars

(***************************************************************************)
(* The properties of the engine and of the registry.                        *)
(***************************************************************************)
\* the bytes of text are all single-byte entries of the rank table
SingleBytesPresent(text) ==
    \A i \in 1..Len(str_encode(text)) : <<str_encode(text)[i]>> \in DOMAIN self.encoder

\* the pretokenizer's matches leave no character of text out
Covered(t, text) == Concat(finditer(get_tl_regex(self, t), text)) = text

\* C1: decoding what encode_ordinary returned for a text gives back the
\* UTF-8 bytes of the text, when the rank table has every single byte of the
\* text and the pretokenizer's matches cover the text.
C1_RoundTrip ==
    \A t \in Threads :
        (/\ th[t].op = "decode_bytes"
         /\ th[t].tokens_of = "encode_ordinary"
         /\ SingleBytesPresent(th[t].text)
         /\ Covered(t, th[t].text))
        => th[t].out = str_encode(th[t].text)

\* a covered text with a two-byte character whose pieces were merged
C1_Witness ==
    \E t \in Threads :
        /\ th[t].op = "decode_bytes"
        /\ th[t].tokens_of = "encode_ordinary"
        /\ SingleBytesPresent(th[t].text)
        /\ Covered(t, th[t].text)
        /\ \E i \in 1..Len(th[t].text) : th[t].text[i] = 171
        /\ Len(th[t].tokens) < Len(th[t].text)
        /\ th[t].out = str_encode(th[t].text)

\* the calls of encode that thread t is in, or has come out of
InEncode(t) == th[t].op = "encode" /\ th[t].pc # "idle"

\* the literals of allowed_special that the table has
Admissible(allowed_special) == allowed_special \cap Literals

\* the positions at or after pos where an admissible literal occurs in text
AllowedStarts(text, pos, allowed_special) ==
    {p \in pos..Len(text) :
        \E lit \in Admissible(allowed_special) : LiteralAt(lit, text, p)}

\* what the claim says encode returns: the ordinary tokens of the text up to
\* the nearest admissible occurrence, the id of the literal there (the first
\* of the table's literals that is admissible and occurs there), and the
\* same for the rest of the text
RECURSIVE nearest_allowed_encode(_, _, _, _)
nearest_allowed_encode(eng, t, text, allowed_special) ==
    LET starts == AllowedStarts(text, 0, allowed_special)
        p == Min(starts)
        hit == {i \in 1..Len(eng.special_tokens_encoder) :
                   /\ eng.special_tokens_encoder[i][1] \in allowed_special
                   /\ LiteralAt(eng.special_tokens_encoder[i][1], text, p)}
        entry == eng.special_tokens_encoder[Min(hit)]
        before == encode_ordinary_native(eng.encoder, get_tl_regex(eng, t),
                                         Slice(text, 0, p))
    IN  IF starts = {}
        THEN encode_ordinary_native(eng.encoder, get_tl_regex(eng, t), text).val
        ELSE before.val \o <<entry[2]>>
                 \o nearest_allowed_encode(eng, t,
                        Slice(text, p + Len(entry[1]), Len(text)), allowed_special)

\* C2: when the search of an iteration of encode is over, the segment ends at
\* the nearest occurrence, at or after the cursor, of a literal of the table
\* that allowed_special has (at the end of the text when there is none), and
\* a call that returns has emitted the ordinary tokens before each such
\* occurrence, then the literal's id, then the tokens of the rest.
C2_NearestAllowedBoundsSegment ==
    \A t \in Threads :
        /\ (InEncode(t) /\ th[t].pc = "segment") =>
               LET c == th[t]
                   starts == AllowedStarts(c.text, c.start, c.allowed_special)
               IN  IF starts = {}
                   THEN c.next_special = None
                   ELSE /\ c.next_special # None
                        /\ c.next_special[1] = Min(starts)
                        /\ Slice(c.text, c.next_special[1], c.next_special[2])
                               \in Admissible(c.allowed_special)
        /\ (InEncode(t) /\ th[t].pc = "done") =>
               th[t].ret = nearest_allowed_encode(self, t, th[t].text,
                                                  th[t].allowed_special)

\* C3: a call encode(text, {}) comes to an end, and it ends as
\* encode_ordinary(text) does: with the same tokens, or with the same error.
C3_NoneAllowedIsOrdinary ==
    \A t \in Threads :
        (InEncode(t) /\ th[t].allowed_special = {}) =>
            LET o == encode_ordinary_native(self.encoder, get_tl_regex(self, t),
                                            th[t].text)
            IN  /\ th[t].pc # "hung"
                /\ th[t].pc = "done" => (o.exc = "none" /\ th[t].ret = o.val)
                /\ th[t].pc = "raised" => th[t].exc = o.exc

\* C4: no call of encode comes to an iteration of its inner or of its outer
\* loop that leaves the cursor where it was, which the loop then repeats for
\* ever.
C4_EncodeTerminates ==
    \A t \in Threads : InEncode(t) => th[t].pc # "hung"

\* the bytes the claims give a token: the byte sequence whose rank it is;
\* for a token that is no rank, the bytes of the literal whose id it is (of
\* the last such literal of the table); none for a token of neither
claimed_bytes(token) ==
    LET enc == self.encoder
        spe == self.special_tokens_encoder
        ids == {i \in 1..Len(spe) : spe[i][2] = token}
    IN  IF \E b \in DOMAIN enc : enc[b] = token
        THEN CHOOSE b \in DOMAIN enc : enc[b] = token
        ELSE IF ids # {}
        THEN str_encode(spe[CHOOSE i \in ids : \A j \in ids : j <= i][1])
        ELSE <<>>

\* C6: decode_bytes returns, without an error and for every sequence of
\* tokens, the bytes of its tokens in order, a token's bytes being those of
\* the inverse rank table, else those of the inverse special-token table,
\* else none.
C6_DecodeBytesTotal ==
    \A t \in Threads :
        th[t].op = "decode_bytes" =>
            /\ th[t].pc = "done"
            /\ th[t].exc = "none"
            /\ th[t].out =
                   Concat([i \in 1..Len(th[t].tokens) |-> claimed_bytes(th[t].tokens[i])])

\* a token of neither table between two tokens that have bytes, one of them
\* a token of both tables
C6_Witness ==
    \E t \in Threads :
        /\ th[t].op = "decode_bytes"
        /\ th[t].pc = "done"
        /\ Len(th[t].tokens) = MaxTokens
        /\ \E i \in 1..Len(th[t].tokens) : th[t].tokens[i] = UnknownToken
        /\ \E i \in 1..Len(th[t].tokens) :
               /\ th[t].tokens[i] \in DOMAIN self.decoder
               /\ th[t].tokens[i] \in DOMAIN self.special_tokens_decoder
               /\ th[t].out = self.decoder[th[t].tokens[i]]
               /\ th[t].out # <<>>

\* C7: decode_single_token_bytes(token) raises exactly for a token of neither
\* inverse table, and for every other token returns what decode_bytes([token])
\* returns.
C7_DecodeSingleStrict ==
    \A t \in Threads :
        th[t].op = "decode_single_token_bytes" =>
            LET token == th[t].tokens[1]
                known == token \in DOMAIN self.decoder
                             \cup DOMAIN self.special_tokens_decoder
            IN  /\ th[t].pc = "raised" <=> ~known
                /\ known => th[t].out = decode_native(self, <<token>>)

\* the number of tokens of the last match of the pretokenizer in segment, 0
\* without a match
last_match_tokens(eng, t, segment) ==
    LET pieces == finditer(get_tl_regex(eng, t), segment)
    IN  IF pieces = <<>> THEN 0
        ELSE Len(piece_tokens(eng.encoder, str_encode(pieces[Len(pieces)])).val)

\* C8: the last_piece_token_len a call of encode returns is 0 for the empty
\* text and for a text that ends with a reserved token the call emitted;
\* otherwise it is the number of tokens of the last match of the pretokenizer
\* in the segment after the last reserved token (0 without a match, more than
\* 0 when the text ends with a letter); it is never negative and never more
\* than the number of tokens returned.
C8_LastPieceLen ==
    \A t \in Threads :
        (InEncode(t) /\ th[t].pc = "done") =>
            LET c == th[t]
                segment == Slice(c.text, c.start, Len(c.text))
            IN  /\ 0 <= c.last_piece_token_len
                /\ c.last_piece_token_len <= Len(c.ret)
                /\ c.text = <<>> => c.last_piece_token_len = 0
                /\ (c.start > 0 /\ c.start = Len(c.text)) => c.last_piece_token_len = 0
                /\ c.last_piece_token_len = last_match_tokens(self, t, segment)
                /\ (segment # <<>> /\ segment[Len(segment)] \in AsciiLetter)
                       => c.last_piece_token_len > 0

\* a text with a word, a reserved token that the call emitted, and a word
C8_Witness ==
    \E t \in Threads :
        /\ InEncode(t) /\ th[t].pc = "done"
        /\ Len(th[t].text) = 3
        /\ th[t].start = 2
        /\ Len(th[t].ret) = 3
        /\ th[t].ret[2] \in DOMAIN self.special_tokens_decoder
        /\ th[t].last_piece_token_len = 1

\* the bytes of the texts
TextBytes == UNION {{str_encode(<<c>>)[i] : i \in 1..Len(str_encode(<<c>>))} : c \in Chars}

\* C9: an engine that was constructed has a rank for every single byte, and
\* no call of encode_ordinary or encode on it fails with a lookup of a byte
\* sequence the rank table does not have.
C9_ConstructionRejectsMissingByte ==
    /\ init_exc = "none" => \A b \in TextBytes : <<b>> \in DOMAIN self.encoder
    /\ \A t \in Threads :
           th[t].op \in {"encode_ordinary", "encode"} => th[t].exc # "KeyError"

\* the calls of get_encoding that have returned an Encoding
Got(t) == ge[t].op = "get_encoding" /\ ge[t].pc = "returned"

\* C5: at most one engine is constructed for a name, the calls of
\* get_encoding for one name return the same engine, and the entry of a name
\* is the first engine constructed for it from its insertion on (the engines
\* of a name are inserted in the order of their construction, so any other
\* entry has replaced that one).
C5_ConstructedOnce ==
    /\ \A name \in EncodingNames : built[name] <= 1
    /\ \A t1, t2 \in Threads :
           (Got(t1) /\ Got(t2) /\ ge[t1].encoding_name = ge[t2].encoding_name)
               => ge[t1].ret = ge[t2].ret
    /\ \A name \in EncodingNames : ENCODINGS[name] \in {None, <<name, 1>>}

\* a call of encode run from its first frame c to its end with no other call
\* beside it
RECURSIVE run_frame(_, _, _)
run_frame(eng, t, c) ==
    IF c.pc = "search" THEN run_frame(eng, t, search_step(eng, t, c))
    ELSE IF c.pc = "segment" THEN run_frame(eng, t, segment_step(eng, t, c))
    ELSE c

\* what the call of thread t returns when it runs alone
sequential(t) ==
    IF th[t].op = "encode"
    THEN LET c == run_frame(self, t, encode_frame(th[t].text, th[t].allowed_special))
         IN  [pc |-> c.pc, ret |-> c.ret, exc |-> c.exc,
              last_piece_token_len |-> c.last_piece_token_len]
    ELSE LET r == encode_ordinary_native(self.encoder, get_tl_regex(self, t),
                                         th[t].text)
         IN  [pc |-> Finished(r), ret |-> r.val, exc |-> r.exc,
              last_piece_token_len |-> 0]

\* the encode calls of the threads that have come to their end
Ended(t) ==
    /\ th[t].op \in {"encode", "encode_ordinary"}
    /\ th[t].pc \in {"done", "raised", "hung"}

\* C10: an encode call that ends while the other thread is in a call of its
\* own ends as it does alone, with the same tokens or the same error, and no
\* step of a call changes the engine.
C10_ParallelIsSequential ==
    /\ [](\A t \in Threads :
             Ended(t) =>
                 [pc |-> th[t].pc, ret |-> th[t].ret, exc |-> th[t].exc,
                  last_piece_token_len |-> th[t].last_piece_token_len]
                     = sequential(t))
    /\ [][init_exc = "none" => self' = self]_vars

\* a thread has ended a call that emitted a reserved token and an ordinary
\* one, while the other thread is in the second iteration of its own call
C10_Witness ==
    \E t, u \in Threads :
        /\ t # u
        /\ th[t].op = "encode" /\ th[t].pc = "done"
        /\ Len(th[t].ret) = 2
        /\ th[t].start > 0
        /\ th[u].op = "encode" /\ th[u].pc = "segment"
        /\ th[u].start > 0
        /\ th[u].text # th[t].text

\* the calls of byte_pair_split that went through _byte_pair_merge
InMerge(t) == th[t].op = "byte_pair_split" /\ Len(th[t].piece) # 1

\* the ranges <<start, stop>> between the boundaries of parts
ranges_of(parts) == [k \in 1..(Len(parts) - 1) |-> <<parts[k][1], parts[k + 1][1]>>]

\* C11: the loop of _byte_pair_merge ends, each of its iterations taking one
\* boundary away and at least one boundary being left; the ranges it hands
\* out are not empty, each starts where the one before stops, the first at 0
\* and the last stopping at len(piece); the bytes of two ranges next to each
\* other have no rank, and _byte_pair_merge on those bytes gives two ranges
\* or more.
C11_MergeMinimal ==
    /\ [](\A t \in Threads :
             /\ (InMerge(t) /\ th[t].pc = "merge") => Len(th[t].parts) >= 1
             /\ (InMerge(t) /\ th[t].pc = "done") =>
                    LET c == th[t]
                        r == ranges_of(c.parts)
                        n == Len(r)
                    IN  /\ \A k \in 1..n : r[k][1] < r[k][2]
                        /\ \A k \in 1..(n - 1) : r[k][2] = r[k + 1][1]
                        /\ n > 0 => (r[1][1] = 0 /\ r[n][2] = Len(c.piece))
                        /\ n = 0 <=> c.piece = <<>>
                        /\ c.out = [k \in 1..n |-> Slice(c.piece, r[k][1], r[k][2])]
                        /\ \A k \in 1..(n - 1) :
                               LET both == Slice(c.piece, r[k][1], r[k + 1][2])
                               IN  /\ both \notin DOMAIN self.encoder
                                   /\ Len(byte_pair_merge(both, self.encoder)) >= 2)
    /\ [][\A t \in Threads :
             (InMerge(t) /\ th[t].pc = "merge" /\ th'[t].pc = "merge")
                 => Len(th'[t].parts) = Len(th[t].parts) - 1]_vars

\* a piece of four bytes that came out as two ranges after two iterations
\* joined pairs, the second of them with a rank of three bytes
C11_Witness ==
    \E t \in Threads :
        /\ InMerge(t) /\ th[t].pc = "done"
        /\ Len(th[t].piece) = 4
        /\ Len(th[t].out) = 2
        /\ Len(th[t].out[1]) = 3
        /\ th[t].out[1] \o th[t].out[2] = th[t].piece

\* the token decodes to bytes that are all space, tab or newline
decodes_to_space(token) ==
    /\ token \in DOMAIN self.decoder
    /\ \A i \in 1..Len(self.decoder[token]) : self.decoder[token][i] \in {32, 9, 10}

\* the length of the region of the last n tokens once it is widened over the
\* tokens before it that decode to space, tab or newline
RECURSIVE widened(_, _)
widened(tokens, n) ==
    IF n < Len(tokens) /\ decodes_to_space(tokens[Len(tokens) - n])
    THEN widened(tokens, n + 1)
    ELSE n

\* C12: encode_with_unstable returns the tokens of _encode_native unchanged,
\* with no completion, when last_piece_token_len is 0; otherwise it returns
\* them without the last last_piece_token_len tokens widened backward over
\* every token before them that decodes to space, tab or newline bytes,
\* whatever the tokens of the region are.
C12_UnstableWidened ==
    \A t \in Threads :
        (th[t].op = "encode_with_unstable" /\ th[t].pc = "done") =>
            LET c == th[t]
                n == widened(c.tokens, c.last_piece_token_len)
            IN  IF c.last_piece_token_len = 0
                THEN c.ret = c.tokens /\ c.completions = {}
                ELSE c.ret = SubSeq(c.tokens, 1, Len(c.tokens) - n)

=============================================================================
